---- MODULE Spec2Model ----
(***************************************************************************)
(* Model of js/script.js: the asset loader (ResourceManager), the click    *)
(* counter controller (ArisGame) and the entry points (main and the        *)
(* DOMContentLoaded / pjax:complete listeners).                            *)
(*                                                                         *)
(* One action is one task of the browser's event loop together with the    *)
(* promise jobs it queues: the jobs of a task run to completion before the *)
(* next event (a click, a navigation, another fetch completion) is         *)
(* dispatched.                                                             *)
(***************************************************************************)
EXTENDS Integers, Sequences, FiniteSets

\* ------------------------------------------------------------------------
\* Bounds of the model
\* ------------------------------------------------------------------------
\* calls of ArisGame.init in one run (from main or from pjax:complete)
MaxInits == 2
\* interactions handled in one run
MaxClicks == 2

\* ------------------------------------------------------------------------
\* GAME_CONFIG
\* ------------------------------------------------------------------------
\* GAME_CONFIG.audioList.length
NumAudio == 2
\* GAME_CONFIG.preloadImages.length
NumImages == 2
\* spawnHerta draws one of img/arisu1.gif, img/arisu2.gif
NumHerta == 2

AudioIds == 1..NumAudio

\* null (a failed getElementById, an absent storage slot, ArisGame.manager
\* before the first load)
Nil == 0

\* ------------------------------------------------------------------------
\* Strings and numbers.  A string is a sequence of one-character strings.
\* A number is a double that holds an integer, NaN or an infinity: a record
\* with the decimal digits d of its magnitude (most significant first, no
\* leading zero), so that the values beyond 2^53, -0, NaN and Infinity are
\* values of their own.
\* ------------------------------------------------------------------------
RECURSIVE NatDigits(_)
NatDigits(n) ==
    IF n < 10 THEN <<n>> ELSE NatDigits(n \div 10) \o <<n % 10>>

Num(n) ==
    [nan |-> FALSE, inf |-> FALSE, neg |-> n < 0,
     d |-> NatDigits(IF n < 0 THEN 0 - n ELSE n)]
NaN == [nan |-> TRUE, inf |-> FALSE, neg |-> FALSE, d |-> <<0>>]
Infinity(neg) == [nan |-> FALSE, inf |-> TRUE, neg |-> neg, d |-> <<0>>]
Finite(neg, d) == [nan |-> FALSE, inf |-> FALSE, neg |-> neg, d |-> d]

\* Arithmetic on digit sequences.  These are functions, not operators: a
\* function is applied to the value of its argument.
DigitSeq == Seq(0..9)

\* the sequence f as a tuple
Tuple(f) == SubSeq(f, 1, Len(f))

\* d without its leading zeros
Strip[d \in DigitSeq] ==
    IF Len(d) > 1 /\ d[1] = 0 THEN Strip[Tail(d)] ELSE d

Last(d) == d[Len(d)]
Odd(d) == Last(d) % 2 = 1

Zeros(j) == [k \in 1..j |-> 0]

\* the digit of weight 10^(i-1) of a
DigitAt(a, i) == IF i <= Len(a) THEN a[Len(a) + 1 - i] ELSE 0

\* a < b, for digit sequences without leading zeros
Less[a \in DigitSeq, b \in DigitSeq] ==
    \/ Len(a) < Len(b)
    \/ /\ Len(a) = Len(b)
       /\ \E i \in 1..Len(a) :
             a[i] < b[i] /\ SubSeq(a, 1, i - 1) = SubSeq(b, 1, i - 1)

LessEq[a \in DigitSeq, b \in DigitSeq] == a = b \/ Less[a, b]

\* the digits of a * m + c from weight 10^(i-1) up, the carry c coming in,
\* put before the digits acc of lower weight
MulFrom[a \in DigitSeq, m \in 0..16, i \in Nat, c \in 0..16, acc \in DigitSeq] ==
    IF i > Len(a)
    THEN (IF c >= 10 THEN <<c \div 10, c % 10>> ELSE <<c>>) \o acc
    ELSE MulFrom[a, m, i + 1, (DigitAt(a, i) * m + c) \div 10,
                 <<(DigitAt(a, i) * m + c) % 10>> \o acc]

\* a * m + c for a small multiplier m and a small addend c
MulAdd[a \in DigitSeq, m \in 0..16, c \in 0..16] ==
    Strip[MulFrom[a, m, 1, c, <<>>]]

\* the digits of a + b from weight 10^(i-1) up, the carry c coming in
AddFrom[a \in DigitSeq, b \in DigitSeq, i \in Nat, c \in 0..1, acc \in DigitSeq] ==
    IF i > Len(a) /\ i > Len(b)
    THEN (IF c = 0 THEN acc ELSE <<c>> \o acc)
    ELSE AddFrom[a, b, i + 1, (DigitAt(a, i) + DigitAt(b, i) + c) \div 10,
                 <<(DigitAt(a, i) + DigitAt(b, i) + c) % 10>> \o acc]

\* a + b
Add[a \in DigitSeq, b \in DigitSeq] == AddFrom[a, b, 1, 0, <<>>]

\* the digits of a - b from weight 10^(i-1) up, the borrow c coming in
SubFrom[a \in DigitSeq, b \in DigitSeq, i \in Nat, c \in 0..1, acc \in DigitSeq] ==
    IF i > Len(a) THEN acc
    ELSE SubFrom[a, b, i + 1,
                 IF DigitAt(a, i) - DigitAt(b, i) - c < 0 THEN 1 ELSE 0,
                 <<(DigitAt(a, i) - DigitAt(b, i) - c + 10) % 10>> \o acc]

\* a - b, for a >= b
Sub[a \in DigitSeq, b \in DigitSeq] == Strip[SubFrom[a, b, 1, 0, <<>>]]

\* floor(a / 2): the remainder a prefix leaves is the parity of its last
\* digit
Halve[a \in DigitSeq] ==
    Strip[Tuple(
        [k \in 1..Len(a) |->
            ((IF k = 1 THEN 0 ELSE a[k - 1] % 2) * 10 + a[k]) \div 2])]

\* m * 2^e
Scale[m \in DigitSeq, e \in Nat] ==
    IF e = 0 THEN m ELSE Scale[Add[m, m], e - 1]

\* 2^53: the integers below it are doubles
TwoTo53 == <<9, 0, 0, 7, 1, 9, 9, 2, 5, 4, 7, 4, 0, 9, 9, 2>>
\* 2^52
TwoTo52 == <<4, 5, 0, 3, 5, 9, 9, 6, 2, 7, 3, 7, 0, 4, 9, 6>>
\* the greatest exponent e of a finite double m * 2^e with m < 2^53
MaxExponent == 971

\* a = m * 2^e + (what was shifted out), with m < 2^53 and e as small as
\* can be; rnd is the last bit shifted out, sticky whether any bit before
\* it was set
Mantissa[m \in DigitSeq, e \in Nat, rnd \in BOOLEAN, sticky \in BOOLEAN] ==
    IF Less[m, TwoTo53]
    THEN [m |-> m, e |-> e, rnd |-> rnd, sticky |-> sticky]
    ELSE Mantissa[Halve[m], e + 1, Odd(m), sticky \/ rnd]

\* the double nearest to the integer a, ties to the even mantissa; <<>> for
\* an integer that rounds to Infinity
RoundToDouble[a \in DigitSeq] ==
    LET s == Mantissa[a, 0, FALSE, FALSE]
        up == s.rnd /\ (s.sticky \/ Odd(s.m))
        m == IF up THEN Add[s.m, <<1>>] ELSE s.m
    IN  IF s.e > MaxExponent \/ (s.e = MaxExponent /\ m = TwoTo53)
        THEN <<>>
        ELSE Scale[m, s.e]

\* the number of magnitude a (an integer, rounded to a double) and sign neg
Rounded(neg, a) ==
    LET r == RoundToDouble[a]
    IN  IF r = <<>> THEN Infinity(neg) ELSE Finite(neg, r)

\* The decimal digits Number::toString and toLocaleString print for the
\* double of magnitude a: those of the integer with the fewest significant
\* digits that still rounds to a (the nearest to a if there are several,
\* the even one on a tie), followed by zeros.  lo and hi bound the integers
\* that round to a.

\* a with its last j digits replaced by zeros
Floor(a, j) ==
    IF j < Len(a) THEN Tuple(SubSeq(a, 1, Len(a) - j) \o Zeros(j)) ELSE <<0>>

\* the multiple of 10^j next above Floor(a, j)
Ceil(a, j) == Add[Floor(a, j), Tuple(<<1>> \o Zeros(j))]

Within(c, lo, hi, closed) ==
    IF closed THEN LessEq[lo, c] /\ LessEq[c, hi]
    ELSE Less[lo, c] /\ Less[c, hi]

\* some multiple of 10^j rounds to a: then so does a multiple of every
\* lower power of ten
Fits(a, lo, hi, closed, j) ==
    \/ j < Len(a) /\ Within(Floor(a, j), lo, hi, closed)
    \/ Within(Ceil(a, j), lo, hi, closed)

\* the digits with j zeros, when no multiple of 10^(j+1) rounds to a
Shortest[a \in DigitSeq, lo \in DigitSeq, hi \in DigitSeq, closed \in BOOLEAN, j \in Nat] ==
    LET c1 == Floor(a, j)
        c2 == Ceil(a, j)
        ok1 == j < Len(a) /\ Within(c1, lo, hi, closed)
        ok2 == Within(c2, lo, hi, closed)
    IN  IF j < Len(a) /\ Fits(a, lo, hi, closed, j + 1)
        THEN Shortest[a, lo, hi, closed, j + 1]
        ELSE IF ok1 /\ ok2
        THEN IF Less[Sub[a, c1], Sub[c2, a]] THEN c1
             ELSE IF Less[Sub[c2, a], Sub[a, c1]] THEN c2
             ELSE IF a[Len(a) - j] % 2 = 0 THEN c1 ELSE c2
        ELSE IF ok1 THEN c1
        ELSE c2

ShortestDigits[a \in DigitSeq] ==
    LET s == Mantissa[a, 0, FALSE, FALSE]
        half == Scale[<<1>>, s.e - 1]
        \* below a power of two the doubles lie twice as close
        below == IF s.m # TwoTo52 THEN half
                 ELSE IF s.e = 1 THEN <<0>>
                 ELSE Scale[<<1>>, s.e - 2]
    IN  IF s.e = 0 THEN a
        ELSE Shortest[Tuple(a), Sub[a, below], Add[a, half], ~Odd(s.m), 0]

Digits == <<"0", "1", "2", "3", "4", "5", "6", "7", "8", "9">>
HexLetters == <<"a", "b", "c", "d", "e", "f">>
HexCapitals == <<"A", "B", "C", "D", "E", "F">>

\* the value of character c as a digit, 99 when it is no digit of radix 10
\* or 16
DigitValue(c) ==
    IF \E d \in 1..10 : Digits[d] = c
    THEN (CHOOSE d \in 1..10 : Digits[d] = c) - 1
    ELSE IF \E d \in 1..6 : HexLetters[d] = c
         THEN (CHOOSE d \in 1..6 : HexLetters[d] = c) + 9
         ELSE IF \E d \in 1..6 : HexCapitals[d] = c
              THEN (CHOOSE d \in 1..6 : HexCapitals[d] = c) + 9
              ELSE 99

\* StrWhiteSpaceChar: the white space and line terminator characters that
\* have an escape in a string of this module, and "nbsp", "bom", "ls", "ps",
\* "zs" for U+00A0, U+FEFF, U+2028, U+2029 and the characters of category Zs
WhiteSpace ==
    {" ", "\t", "\n", "\f", "\r", "vt", "nbsp", "bom", "ls", "ps", "zs"}

RECURSIVE SkipSpace(_)
SkipSpace(s) ==
    IF s # <<>> /\ Head(s) \in WhiteSpace THEN SkipSpace(Tail(s)) ELSE s

\* the longest prefix of s made of digits of the radix
RECURSIVE DigitPrefix(_, _)
DigitPrefix(s, radix) ==
    IF s # <<>> /\ DigitValue(Head(s)) < radix
    THEN <<Head(s)>> \o DigitPrefix(Tail(s), radix)
    ELSE <<>>

\* the integer the digits z denote in the radix, from the value acc of the
\* digits before them
MathInt[z \in Seq(STRING), radix \in {10, 16}, acc \in DigitSeq] ==
    IF z = <<>> THEN acc
    ELSE MathInt[Tail(z), radix, MulAdd[acc, radix, DigitValue(Head(z))]]

\* parseInt(s) with no radix argument
ParseInt(s) ==
    LET t == SkipSpace(s)
        neg == t # <<>> /\ Head(t) = "-"
        u == IF t # <<>> /\ Head(t) \in {"-", "+"} THEN Tail(t) ELSE t
        hex == Len(u) >= 2 /\ u[1] = "0" /\ u[2] \in {"x", "X"}
        radix == IF hex THEN 16 ELSE 10
        v == IF hex THEN Tail(Tail(u)) ELSE u
        z == DigitPrefix(v, radix)
    IN  IF z = <<>> THEN NaN ELSE Rounded(neg, MathInt[z, radix, <<0>>])

\* the characters of the digits d
DigitChars(d) == Tuple([k \in 1..Len(d) |-> Digits[d[k] + 1]])

RECURSIVE NatToStr(_)
NatToStr(n) ==
    IF n < 10 THEN <<Digits[n + 1]>>
    ELSE NatToStr(n \div 10) \o <<Digits[(n % 10) + 1]>>

\* d without its trailing zeros
Significant[d \in DigitSeq] ==
    IF Len(d) > 1 /\ Last(d) = 0
    THEN Significant[SubSeq(d, 1, Len(d) - 1)] ELSE d

\* Number::toString of a positive integer-valued double: plain digits
\* below 10^21, exponent notation from there on
PositiveToStr[a \in DigitSeq] ==
    LET c == ShortestDigits[a]
        n == Len(c)
        s == DigitChars(Significant[c])
    IN  IF n <= 21 THEN DigitChars(c)
        ELSE <<Head(s)>>
               \o (IF Len(s) > 1 THEN <<".">> \o Tail(s) ELSE <<>>)
               \o <<"e", "+">> \o NatToStr(n - 1)

\* String(x) of a number x, as localStorage.setItem converts its value
ToStr(x) ==
    IF x.nan THEN <<"N", "a", "N">>
    ELSE LET sign == IF x.neg /\ (x.inf \/ x.d # <<0>>) THEN <<"-">> ELSE <<>>
         IN  IF x.inf
             THEN sign \o <<"I", "n", "f", "i", "n", "i", "t", "y">>
             ELSE sign \o PositiveToStr[x.d]

\* the characters c in groups of three separated by commas
Grouped[c \in Seq(STRING)] ==
    IF Len(c) <= 3 THEN c
    ELSE Grouped[SubSeq(c, 1, Len(c) - 3)]
           \o <<",">> \o SubSeq(c, Len(c) - 2, Len(c))

\* x.toLocaleString('en-US'); "inf" is the character U+221E
ToLocale(x) ==
    IF x.nan THEN <<"N", "a", "N">>
    ELSE LET sign == IF x.neg THEN <<"-">> ELSE <<>>
         IN  IF x.inf THEN sign \o <<"inf">>
             ELSE sign \o Grouped[DigitChars(ShortestDigits[x.d])]

\* this.count++: the value of x + 1
Increment(x) ==
    IF x.nan \/ x.inf THEN x
    ELSE IF ~x.neg THEN Rounded(FALSE, Add[x.d, <<1>>])
    ELSE IF x.d = <<0>> THEN Num(1)
    ELSE IF x.d = <<1>> THEN Num(0)
    ELSE Rounded(TRUE, Sub[x.d, <<1>>])

\* The values Math.random() is drawn from, as <<numerator, denominator>>:
\* the least value and one close to the excluded 1
RandomDraws == {<<0, 1>>, <<999, 1000>>}

\* Math.floor(Math.random() * len) with Math.random() = r
RandomIndex(r, len) == (r[1] * len) \div r[2]

\* Math.floor((current / total) * 100)
Progress(current, total) == (current * 100) \div total


\* ------------------------------------------------------------------------
\* The document.  A navigation replaces the page content, so an element is
\* named by the page it belongs to: the button of page g is the handle g.
\* Only the current page is kept: init replaces this.elements as a whole,
\* so nothing refers to the elements of a replaced page any more.
\* ------------------------------------------------------------------------
\* "game": every element init looks up is present; "bare": only the
\* primary control is; "other": a page without the widget
PageKinds == {"game", "bare", "other"}

HasButton(k) == k \in {"game", "bare"}
HasWidgets(k) == k = "game"

\* the element texts of a page as the markup delivers them
MarkupText == <<"markup", 0>>

NewPage(k, g) ==
    [id |-> g,
     kind |-> k,
     btnText |-> MarkupText,
     onclick |-> FALSE,
     loadingIn |-> HasWidgets(k),
     counterText |-> <<>>,
     descText |-> MarkupText,
     unitText |-> MarkupText]

\* the contents the 'count-v2' slot may hold when the session starts
AbsentSlot == [present |-> FALSE, value |-> <<>>]
StoredSlot(s) == [present |-> TRUE, value |-> s]
SlotContents ==
    {AbsentSlot,
     StoredSlot(<<>>),
     StoredSlot(<<"9", "9", "9">>),
     StoredSlot(<<"-", "1", "0", "0", "0">>),
     StoredSlot(<<"a", "b", "c">>),
     StoredSlot(<<"1", "2", "p", "x">>),
     StoredSlot(<<"\t", "0", "X", "1", "F">>),
     \* 2^53 + 1
     StoredSlot(<<"9", "0", "0", "7", "1", "9", "9", "2", "5", "4", "7", "4",
                  "0", "9", "9", "3">>)}

VARIABLES
    page,        \* the current document
    ripples,     \* <<interaction, button>>: the span.ripple elements in a button
    slot,        \* localStorage 'count-v2'
    arisGameInitialized,  \* window.arisGameInitialized
    elements,    \* ArisGame.elements
    count,       \* ArisGame.count
    manager,     \* ArisGame.manager: the pass whose ResourceManager it is
    passes,      \* per init call: its ResourceManager and its loadAll
    effects,     \* img.herta-animation-obj in document.body, by interaction
    initCalls,   \* calls of ArisGame.init
    mainCalls,   \* calls of main
    mainInits,   \* calls of ArisGame.init made by main
    clicks,      \* interactions handled
    writes,      \* calls of localStorage.setItem
    fetches,     \* calls of fetch
    imgRequests, \* Image objects given a src
    plays,       \* calls of audio.play
    touched,     \* <<pass, handle, what>>: a callback of the pass wrote the handle,
                 \* or a click handled with the pass as manager put a ripple in it
    uncaught,    \* <<pass, where>>: exceptions no handler caught
    slot0        \* the slot as the session found it

vars == <<page, ripples, slot, arisGameInitialized, elements, count, manager, passes,
          effects, initCalls, mainCalls, mainInits, clicks, writes, fetches,
          imgRequests, plays, touched, uncaught, slot0>>

PassIds == 1..MaxInits

\* document.getElementById on the document pg as it is, as init assigns
\* this.elements: #loading is found only while it is still in the document
Lookup(pg) ==
    LET k == pg.kind
        g == pg.id
    IN  [btn |-> IF HasButton(k) THEN g ELSE Nil,
         counter |-> IF HasWidgets(k) THEN g ELSE Nil,
         loading |-> IF pg.loadingIn THEN g ELSE Nil,
         texts |-> [title |-> IF HasWidgets(k) THEN g ELSE Nil,
                    desc |-> IF HasWidgets(k) THEN g ELSE Nil,
                    ctDesc |-> IF HasWidgets(k) THEN g ELSE Nil,
                    ctUnit |-> IF HasWidgets(k) THEN g ELSE Nil]]

\* ArisGame.elements = {} before the first init
NoElements ==
    [btn |-> Nil, counter |-> Nil, loading |-> Nil,
     texts |-> [title |-> Nil, desc |-> Nil, ctDesc |-> Nil, ctUnit |-> Nil]]

\* new ResourceManager() and the locals of its loadAll
NoPass ==
    [live |-> FALSE,
     btn |-> Nil,
     task |-> [i \in AudioIds |-> "none"],
     loadedCount |-> 0,
     audioCache |-> <<>>,
     isReady |-> FALSE,
     promise |-> "none",
     log |-> <<>>,
     logged |-> 0,
     threw |-> {},
     readyRan |-> FALSE]

\* loadAll with the await on Promise.all dropped: isReady is set as soon
\* as the tasks are started
NewPass_NoAwait(btn) ==
    [NoPass EXCEPT !.live = TRUE,
                   !.btn = btn,
                   !.task = [i \in AudioIds |-> "pending"],
                   !.isReady = TRUE,
                   !.promise = "pending"]

\* the loader init creates, once loadAll has started its tasks
NewPass(btn) ==
    [NoPass EXCEPT !.live = TRUE,
                   !.btn = btn,
                   !.task = [i \in AudioIds |-> "pending"],
                   !.promise = "pending"]

Init ==
    /\ \E k \in PageKinds : page = NewPage(k, 1)
    /\ ripples = {}
    /\ slot \in SlotContents
    /\ slot0 = slot
    /\ arisGameInitialized = FALSE
    /\ elements = NoElements
    /\ count = Num(0)
    /\ manager = Nil
    /\ passes = [p \in PassIds |-> NoPass]
    /\ effects = {}
    /\ initCalls = 0
    /\ mainCalls = 0
    /\ mainInits = 0
    /\ clicks = 0
    /\ writes = 0
    /\ fetches = 0
    /\ imgRequests = 0
    /\ plays = 0
    /\ touched = {}
    /\ uncaught = {}


\* ------------------------------------------------------------------------
\* ArisGame: display
\* ------------------------------------------------------------------------
\* The text setRandomText writes: content[floor(random * length)] for an
\* array, the string itself otherwise.  Which variant of the key was drawn
\* is not tracked.
TextOf(key) == <<key, 1>>

\* the handle h refers to an element of the document pg
Attached(pg, h) == h # Nil /\ h = pg.id

\* elem.innerText = text on the button h: the text replaces the children of
\* the button, the ripples in it among them
TextOnButton(rs, h) == IF h = Nil THEN rs ELSE {r \in rs : r[2] # h}

\* setRandomText(elem, key) for each of the three slots; a null elem is
\* skipped
RefreshTexts(pg, el) ==
    LET p1 == IF Attached(pg, el.btn)
              THEN [pg EXCEPT !.btnText = TextOf("counter-button")]
              ELSE pg
        p2 == IF Attached(pg, el.texts.ctDesc)
              THEN [p1 EXCEPT !.descText = TextOf("counter-descriptions")]
              ELSE p1
    IN  IF Attached(pg, el.texts.ctUnit)
        THEN [p2 EXCEPT !.unitText = TextOf("counter-unit")]
        ELSE p2

UpdateDisplay(pg, el, c, randomizeText) ==
    LET p1 == IF Attached(pg, el.counter)
              THEN [pg EXCEPT !.counterText = ToLocale(c)]
              ELSE pg
    IN  IF randomizeText THEN RefreshTexts(p1, el) ELSE p1

\* ------------------------------------------------------------------------
\* ArisGame.init
\* ------------------------------------------------------------------------
\* localStorage.getItem('count-v2') || '0'
GetItemOrZero(sl) ==
    IF sl.present /\ sl.value # <<>> THEN sl.value ELSE <<"0">>

\* init without its early return
InitAborts_NoReturn(el) == FALSE

\* if (!this.elements.btn) return;
InitAborts(el) == el.btn = Nil

\* init on the document pg (the page a navigation has put in place, or the
\* page as it is)
InitOn(pg) ==
    LET el == Lookup(pg)
        p == initCalls + 1
        c == ParseInt(GetItemOrZero(slot))
    IN  /\ initCalls' = initCalls + 1
        /\ elements' = el
        /\ IF InitAborts(el)
           THEN /\ page' = pg
                /\ UNCHANGED <<count, manager, passes, fetches, imgRequests>>
           ELSE /\ count' = c
                /\ page' = UpdateDisplay(pg, el, count', FALSE)
                /\ manager' = p
                /\ passes' = [passes EXCEPT ![p] = NewPass(el.btn)]
                /\ fetches' = fetches + NumAudio
                /\ imgRequests' = imgRequests + NumImages
        /\ UNCHANGED <<ripples, slot, slot0, arisGameInitialized, effects,
                       clicks, writes, plays, touched, uncaught>>

\* DOMContentLoaded -> main(), on the document the browser loaded
Main ==
    /\ initCalls < MaxInits
    /\ page.id = 1
    /\ mainCalls' = mainCalls + 1
    /\ IF arisGameInitialized
       THEN UNCHANGED <<page, ripples, slot, slot0, arisGameInitialized, elements,
                        count, manager, passes, effects, initCalls, mainInits,
                        clicks, writes, fetches, imgRequests, plays, touched,
                        uncaught>>
       ELSE /\ InitOn(page)
            /\ mainInits' = mainInits + 1

\* the navigation replaces the page content by a page of kind k, then
\* pjax:complete -> ArisGame.init()
PjaxComplete(k) ==
    /\ initCalls < MaxInits
    /\ InitOn(NewPage(k, page.id + 1))
    /\ UNCHANGED <<mainCalls, mainInits>>

\* ------------------------------------------------------------------------
\* ResourceManager.loadAll: one audio task settles
\* ------------------------------------------------------------------------
\* How an audio task ends.  "ok": fetch, response.blob and the FileReader
\* all succeed.  "null": fetch and blob succeed and the FileReader fails;
\* loadend fires all the same and _blobToBase64 resolves with reader.result,
\* which is null.  "failed": fetch or blob rejects.
Outcomes == {"ok", "null", "failed"}

\* the push moved out of the try block
CacheAfter_Always(cache, i, out) ==
    Append(cache, IF out = "null" THEN Nil ELSE i)

\* try { ...; this.audioCache.push(base64) } catch { console.error }: the
\* payload of locator i, or null
CacheAfter(cache, i, out) ==
    IF out = "ok" THEN Append(cache, i)
    ELSE IF out = "null" THEN Append(cache, Nil)
    ELSE cache

\* the count moved from the finally block to the end of the try block
LoadedAfter_TryOnly(n, out) == IF out # "failed" THEN n + 1 ELSE n

\* finally { loadedCount++; ... }
LoadedAfter(n, out) == n + 1

\* the progress callback dereferences this.elements.btn
OnProgressThrows(el) == el.btn = Nil

\* onGameReady without the guard on this.elements.loading
OnGameReadyThrows_Unguarded(el) == el.btn = Nil \/ el.loading = Nil

\* onGameReady dereferences this.elements.btn; this.elements.loading is
\* guarded
OnGameReadyThrows(el) == el.btn = Nil

\* the task without its catch block: a failed fetch rejects it
TaskRejects_NoCatch(out, pthrows) == out = "failed" \/ pthrows

\* the promise of an audio task rejects only when onProgress throws in the
\* finally block; the catch block absorbs a failed fetch
TaskRejects(out, pthrows) == pthrows

\* the callbacks closing over the handles their own init call looked up
CallbackButton_Captured(own, current) == own

\* this.elements.btn in a callback: the callbacks close over `this` and
\* read this.elements when they run, so they get the handle of the latest
\* lookup (current), not the one their own init call looked up (own)
CallbackButton(own, current) == current

\* one cache for the page, reached through ArisGame.manager
CacheOwner_Current(p, current) == current

\* this.audioCache in a task of loadAll: `this` is the ResourceManager
\* whose loadAll started the task, whichever loader ArisGame.manager is by
\* then
CacheOwner(p, current) == p

\* the audio task of locator i of pass p ends with the outcome out
AudioSettle(p, i, out) ==
    /\ passes[p].live
    /\ passes[p].task[i] = "pending"
    /\ LET ps == passes[p]
           el == elements
           n == LoadedAfter(ps.loadedCount, out)
           task1 == [ps.task EXCEPT ![i] = out]
           \* onProgress(loadedCount, total)
           pthrows == OnProgressThrows(el)
           btn == CallbackButton(ps.btn, el.btn)
           pg1 == IF ~pthrows /\ Attached(page, btn)
                  THEN [page EXCEPT !.btnText =
                           <<"Loading", Progress(n, NumAudio)>>]
                  ELSE page
           rs1 == IF pthrows THEN ripples ELSE TextOnButton(ripples, btn)
           trejects == TaskRejects(out, pthrows)
           threw1 == IF trejects THEN ps.threw \cup {i} ELSE ps.threw
           \* await Promise.all(audioTasks); this.isReady = true
           joins == /\ ps.promise = "pending"
                    /\ threw1 = {}
                    /\ \A j \in AudioIds : task1[j] # "pending"
           rejects == ps.promise = "pending" /\ trejects
           \* .then(() => this.onGameReady())
           rthrows == joins /\ OnGameReadyThrows(el)
           pg2 == IF joins /\ Attached(pg1, el.loading)
                  THEN [pg1 EXCEPT !.loadingIn = FALSE]
                  ELSE pg1
           pg3 == IF joins /\ ~rthrows /\ Attached(pg2, btn)
                  THEN [pg2 EXCEPT !.onclick = TRUE]
                  ELSE pg2
           pg4 == IF joins /\ ~rthrows THEN RefreshTexts(pg3, el) ELSE pg3
           rs2 == IF joins /\ ~rthrows THEN TextOnButton(rs1, el.btn) ELSE rs1
       IN  /\ page' = pg4
           /\ ripples' = rs2
           /\ passes' = [[passes EXCEPT ![p] =
                 [ps EXCEPT !.task = task1,
                            !.logged = IF out = "failed" THEN @ + 1 ELSE @,
                            !.loadedCount = n,
                            !.log = Append(@, <<n, NumAudio>>),
                            !.threw = threw1,
                            !.isReady = @ \/ joins,
                            !.promise = IF joins THEN "resolved"
                                        ELSE IF rejects THEN "rejected" ELSE @,
                            !.readyRan = @ \/ joins]]
                 EXCEPT ![CacheOwner(p, manager)].audioCache =
                            CacheAfter(@, i, out)]
           /\ touched' = touched
                 \cup (IF pthrows THEN {} ELSE {<<p, btn, "progress">>})
                 \cup (IF joins /\ ~rthrows THEN {<<p, btn, "ready">>} ELSE {})
           /\ uncaught' = uncaught
                 \cup (IF rejects THEN {<<p, "loadAll">>} ELSE {})
                 \cup (IF rthrows THEN {<<p, "onGameReady">>} ELSE {})
    /\ UNCHANGED <<slot, slot0, arisGameInitialized, elements,
                   count, manager, effects, initCalls, mainCalls, mainInits,
                   clicks, writes, fetches, imgRequests, plays>>


\* ------------------------------------------------------------------------
\* ArisGame.handleInteraction
\* ------------------------------------------------------------------------
\* ResourceManager.getRandomAudio: Nil for null and for undefined (an index
\* outside the array), else the cached payload
GetRandomAudio(cache, r) ==
    LET idx == RandomIndex(r, Len(cache))
    IN  IF Len(cache) = 0 THEN Nil
        ELSE IF idx + 1 \in DOMAIN cache THEN cache[idx + 1]
        ELSE Nil

\* the argument of localStorage.setItem('count-v2', this.count), given the
\* counter before and after this.count++
StoredValue(old, new) == ToStr(new)

\* createRipple dereferences this.elements.btn
CreateRippleThrows(el) == el.btn = Nil

\* document.body.appendChild(img): the image of the e-th interaction joins
\* the images in the document
EffectsAfter(effs, e) == effs \cup {e}

\* a click on the primary control of the current document, dispatched to
\* the handler onGameReady bound on it; ra and rh are the values
\* Math.random() returns in getRandomAudio and in spawnHerta
Click ==
    /\ clicks < MaxClicks
    /\ page.onclick
    /\ count' = Increment(count)
    /\ slot' = StoredSlot(StoredValue(count, count'))
    /\ writes' = writes + 1
    /\ clicks' = clicks + 1
    /\ page' = UpdateDisplay(page, elements, count', TRUE)
    /\ \E ra, rh \in RandomDraws :
          LET el == elements
              \* refreshTexts writes the button before createRipple runs
              rs1 == TextOnButton(ripples, el.btn)
              \* playAudio
              athrows == manager = Nil
              source == IF athrows THEN Nil
                        ELSE GetRandomAudio(passes[manager].audioCache, ra)
              \* spawnHerta
              id == RandomIndex(rh, NumHerta) + 1
              \* createRipple
              cthrows == ~athrows /\ CreateRippleThrows(el)
          IN  /\ id \in 1..NumHerta
              /\ plays' = IF source = Nil THEN plays ELSE plays + 1
              /\ effects' = IF athrows THEN effects
                            ELSE EffectsAfter(effects, clicks + 1)
              /\ ripples' = IF athrows \/ cthrows THEN rs1
                            ELSE rs1 \cup {<<clicks + 1, el.btn>>}
              /\ uncaught' = uncaught
                    \cup (IF athrows THEN {<<Nil, "playAudio">>} ELSE {})
                    \cup (IF cthrows THEN {<<Nil, "createRipple">>} ELSE {})
              /\ touched' = IF athrows \/ cthrows THEN touched
                            ELSE touched \cup {<<manager, el.btn, "ripple">>}
    /\ UNCHANGED <<slot0, arisGameInitialized, elements, manager, passes,
                   initCalls, mainCalls, mainInits, fetches, imgRequests>>

\* img.onanimationend = () => img.remove()
AnimationEnd(e) ==
    /\ e \in effects
    /\ effects' = effects \ {e}
    /\ UNCHANGED <<page, ripples, slot, slot0, arisGameInitialized, elements, count,
                   manager, passes, initCalls, mainCalls, mainInits, clicks,
                   writes, fetches, imgRequests, plays, touched, uncaught>>

\* setTimeout(() => ripple.remove(), 400)
RippleTimeout(e) ==
    /\ \E r \in ripples : r[1] = e
    /\ ripples' = {r \in ripples : r[1] # e}
    /\ UNCHANGED <<page, slot, slot0, arisGameInitialized, elements, count,
                   manager, passes, effects, initCalls, mainCalls, mainInits,
                   clicks, writes, fetches, imgRequests, plays, touched,
                   uncaught>>

Next ==
    \/ Main
    \/ \E k \in PageKinds : PjaxComplete(k)
    \/ \E p \in PassIds, i \in AudioIds, out \in Outcomes :
          AudioSettle(p, i, out)
    \/ Click
    \/ \E e \in 1..MaxClicks : AnimationEnd(e)
    \/ \E e \in 1..MaxClicks : RippleTimeout(e)

Spec == Init /\ [][Next]_vars

\* Every started fetch settles, fulfilled or rejected, and the task that
\* awaits it runs to its finally block; the animation of an appended image
\* ends; a timer that was set fires.
Fairness ==
    /\ \A p \in PassIds, i \in AudioIds :
          WF_vars(\E out \in Outcomes : AudioSettle(p, i, out))
    /\ \A e \in 1..MaxClicks : WF_vars(AnimationEnd(e))
    /\ \A e \in 1..MaxClicks : WF_vars(RippleTimeout(e))

\* a fresh session: no count was ever stored
FreshInit == Init /\ slot = AbsentSlot

FairSpec == FreshInit /\ [][Next]_vars /\ Fairness


\* ------------------------------------------------------------------------
\* Properties
\* ------------------------------------------------------------------------
LivePasses == {p \in PassIds : passes[p].live}

Settled(p) == {i \in AudioIds : passes[p].task[i] # "pending"}
\* the locators whose fetch succeeded: the task reached its push
Succeeded(p) == {i \in AudioIds : passes[p].task[i] \in {"ok", "null"}}
\* those of them whose payload was read
Decoded(p) == {i \in AudioIds : passes[p].task[i] = "ok"}

\* the interactions whose ripple is still in a button
RippleIds == {r[1] : r \in ripples}

\* this.count as init restored it from the slot the session found
StartValue == ParseInt(GetItemOrZero(slot0))

\* C1: after N handled interactions, with any init calls in between, the
\* slot holds the decimal numeral of the integer the session started from
\* plus N (the exact sum), and setItem was called exactly N times; before
\* the first interaction the slot is as the session found it.
C1_PersistedCount ==
    /\ writes = clicks
    /\ IF clicks = 0
       THEN slot = slot0
       ELSE LET x == StartValue
                n == NatDigits(clicks)
                sum == IF x.nan \/ x.inf THEN x
                       ELSE IF ~x.neg THEN Finite(FALSE, Add[x.d, n])
                       ELSE IF Less[n, x.d] THEN Finite(TRUE, Sub[x.d, n])
                       ELSE Finite(FALSE, Sub[n, x.d])
            IN  slot = StoredSlot(
                    IF sum.nan \/ sum.inf THEN ToStr(sum)
                    ELSE (IF sum.neg THEN <<"-">> ELSE <<>>)
                           \o DigitChars(sum.d))

\* the slot held 2^53 + 1; init restored 2^53, and the click left 2^53 in
\* the slot
C1_Witness ==
    /\ clicks = 1
    /\ slot0 = StoredSlot(<<"9", "0", "0", "7", "1", "9", "9", "2", "5", "4",
                            "7", "4", "0", "9", "9", "3">>)
    /\ count = Finite(FALSE, TwoTo53)
    /\ slot = StoredSlot(DigitChars(TwoTo53))

\* C2: loadAll is resolved exactly when every audio task has settled, and
\* it is never rejected.
C2_ResolvesIffSettled ==
    \A p \in LivePasses :
        /\ passes[p].promise # "rejected"
        /\ passes[p].promise = "resolved" <=> Settled(p) = AudioIds

\* C3: onProgress is called once per settled audio task, failed or not,
\* with completedCount 1, 2, ... in that order and total as its second
\* argument; hence exactly total times once every task has settled.
C3_ProgressCounts ==
    \A p \in LivePasses :
        /\ Len(passes[p].log) = Cardinality(Settled(p))
        /\ \A k \in 1..Len(passes[p].log) : passes[p].log[k] = <<k, NumAudio>>

\* a batch whose second locator settled first and whose first locator
\* failed, with both progress calls made
C3_Witness ==
    \E p \in LivePasses :
        /\ passes[p].task[1] = "failed"
        /\ passes[p].audioCache = <<2>>
        /\ passes[p].log = <<<<1, 2>>, <<2, 2>>>>
        /\ passes[p].logged = 1

\* C4: a failed fetch never rejects loadAll (only a throwing callback
\* does), and when loadAll has resolved the loader is ready and its cache
\* holds exactly one entry per locator that succeeded, none for one that
\* failed.
C4_PartialFailure ==
    \A p \in LivePasses :
        /\ passes[p].promise = "rejected" => passes[p].threw # {}
        /\ passes[p].promise = "resolved" =>
              /\ passes[p].isReady
              /\ Len(passes[p].audioCache) = Cardinality(Succeeded(p))
              /\ Len(passes[p].audioCache) <= NumAudio
              /\ \A i \in AudioIds :
                    i \in Decoded(p) <=>
                       \E k \in 1..Len(passes[p].audioCache) :
                          passes[p].audioCache[k] = i

\* first locator failed, second succeeded: resolved, ready, one entry
C4_Witness ==
    \E p \in LivePasses :
        /\ passes[p].task[1] = "failed"
        /\ passes[p].task[2] = "ok"
        /\ passes[p].promise = "resolved"
        /\ passes[p].isReady
        /\ passes[p].audioCache = <<2>>

\* C5: an init call that finds no primary control changes nothing but the
\* handles: counter, loader, loads and slot stay as they were, no fetch is
\* issued, and the document is as the call found it (the page it was, or
\* the page the navigation delivered, with no click binding added).
C5_AbortIsTotal ==
    [][(initCalls' = initCalls + 1 /\ elements'.btn = Nil) =>
          /\ UNCHANGED <<count, manager, passes, slot, writes, fetches,
                         imgRequests, effects, ripples, touched, uncaught>>
          /\ \/ page' = page
             \/ \E k \in PageKinds : page' = NewPage(k, page.id + 1)]_vars

\* the latest init call found no primary control, after a load was started
\* and a counter restored by an earlier call
C5_Witness ==
    /\ initCalls = 2
    /\ elements.btn = Nil
    /\ manager = 1
    /\ passes[1].live
    /\ count = Num(999)

\* C6: once init has run with the primary control present, the counter
\* is a non-negative integer, and so is every value written to the slot.
C6_CounterNonNegative ==
    manager # Nil =>
        /\ ~count.nan
        /\ ~count.inf
        /\ ~count.neg
        /\ writes > 0 => \A k \in 1..Len(slot.value) :
                             DigitValue(slot.value[k]) < 10

\* C7: of the calls of main, only the first runs init.
C7_MainGuarded ==
    /\ mainInits <= 1
    /\ mainCalls >= 1 => mainInits = 1

\* every init call so far found the primary control
AlwaysFoundButton == initCalls = Cardinality(LivePasses)

\* C8: as long as every init call found the primary control, the latest
\* call's handles are those of the current page, each call has started its
\* own load, no callback of any pass has thrown, and a pass whose tasks
\* have all settled has resolved and run its ready transition.
C8_StalePassCompletes ==
    AlwaysFoundButton =>
        /\ uncaught = {}
        /\ initCalls > 0 =>
              /\ elements.btn = Lookup(page).btn
              /\ elements.counter = Lookup(page).counter
              /\ elements.texts = Lookup(page).texts
              /\ elements.loading \in {Nil, page.id}
        /\ \A p \in 1..initCalls :
              /\ passes[p].btn # Nil
              /\ passes[p].promise # "rejected"
              /\ Settled(p) = AudioIds =>
                    passes[p].promise = "resolved" /\ passes[p].readyRan

\* the navigation came while the first load was pending; the first pass
\* then made its progress calls and its ready transition, and the second
\* pass has its own load
C8_Witness ==
    /\ page.id = 2
    /\ initCalls = 2
    /\ passes[1].btn = 1 /\ passes[2].btn = 2
    /\ <<1, 2, "progress">> \in touched
    /\ <<1, 2, "ready">> \in touched
    /\ passes[1].readyRan
    /\ passes[2].live /\ manager = 2
    /\ uncaught = {}

\* C9: no callback of any pass, and no interaction handler, throws an
\* exception nothing catches, and no loadAll promise is rejected.
C9_NoUncaught ==
    /\ uncaught = {}
    /\ \A p \in LivePasses : passes[p].promise # "rejected"

\* C10: the progress calls and the ready transition of a pass write only
\* the handles its own init call looked up.
C10_OwnHandlesOnly ==
    \A t \in touched : t[2] = passes[t[1]].btn

\* C11: a loader is not ready when it is created, is ready only once every
\* one of its audio tasks has settled and all its progress calls are made,
\* and once ready stays ready.
C11_ReadyOnceSettled ==
    [][\A p \in PassIds :
          /\ (~passes[p].live /\ passes'[p].live) => ~passes'[p].isReady
          /\ passes'[p].isReady =>
                /\ \A i \in AudioIds : passes'[p].task[i] # "pending"
                /\ Len(passes'[p].log) = NumAudio
          /\ passes[p].isReady => passes'[p].isReady]_vars

\* the first loader became ready with one failed task, was replaced by a
\* second loader that is still loading, and is still ready
C11_Witness ==
    /\ manager = 2
    /\ passes[1].isReady
    /\ passes[1].task[1] = "failed"
    /\ ~passes[2].isReady
    /\ \E i \in AudioIds : passes[2].task[i] # "pending"

\* C12: an init call that finds the primary control installs a loader
\* that did not exist before, with an empty cache; a cache grows only by
\* the payload of a task of its own loader that has just fulfilled; the
\* cache of the current loader never holds more than NumAudio entries.
C12_OwnCacheOnly ==
    [][/\ (initCalls' = initCalls + 1 /\ elements'.btn # Nil) =>
             /\ manager' = initCalls'
             /\ ~passes[manager'].live
             /\ passes'[manager'].live
             /\ passes'[manager'].audioCache = <<>>
       /\ \A p \in PassIds :
             passes'[p].audioCache # passes[p].audioCache =>
                \E i \in AudioIds :
                   /\ passes[p].live
                   /\ passes[p].task[i] = "pending"
                   /\ passes'[p].task[i] \in {"ok", "null"}
                   /\ passes'[p].audioCache =
                         Append(passes[p].audioCache,
                                IF passes'[p].task[i] = "ok" THEN i ELSE Nil)
       /\ manager' # Nil =>
             Len(passes'[manager'].audioCache) <= NumAudio]_vars

\* both fetches of the first loader fulfilled, at least one of them after
\* the second init call, and the second loader holds only its own payload
C12_Witness ==
    /\ manager = 2
    /\ <<1, 2, "progress">> \in touched
    /\ Len(passes[1].audioCache) = 2
    /\ passes[2].audioCache = <<2>>
    /\ passes[2].task[1] = "pending"

\* C13: for every loader and every draw, getRandomAudio returns null
\* exactly when the cache is empty, and otherwise an entry of the cache at
\* an index within 0..M-1; an interaction makes no play attempt and throws
\* nothing in playAudio when the current cache is empty, and makes one play
\* attempt when it is not.
C13_DrawWithinCache ==
    [][/\ \A p \in PassIds, r \in RandomDraws :
             LET cache == passes'[p].audioCache
                 M == Len(cache)
                 source == GetRandomAudio(cache, r)
             IN  /\ source = Nil <=> M = 0
                 /\ M > 0 =>
                       /\ RandomIndex(r, M) \in 0..(M - 1)
                       /\ source = cache[RandomIndex(r, M) + 1]
       /\ clicks' = clicks + 1 =>
             /\ manager # Nil
             /\ <<Nil, "playAudio">> \notin uncaught'
             /\ plays' = IF Len(passes[manager].audioCache) = 0
                         THEN plays ELSE plays + 1]_vars

\* the current cache holds one entry, the null a failed FileReader left,
\* and the interaction made no play attempt
C13_Witness ==
    /\ clicks = 1
    /\ plays = 0
    /\ uncaught = {}
    /\ manager # Nil
    /\ passes[manager].audioCache = <<Nil>>

\* C14: each handled interaction appends one image and one ripple of its
\* own and makes at most one play attempt, exactly one when the current
\* cache is not empty; a ripple leaves its button only when its timer
\* fires; in a session that found the slot absent the counter element shows
\* the number of interactions so far (0 after init, 1 after the first
\* click) and the first click leaves "1" in the slot; every appended image
\* and ripple is eventually removed.
C14_EffectsAppendedAndRemoved ==
    /\ [][clicks' = clicks + 1 =>
             /\ clicks' \notin effects /\ effects' = effects \cup {clicks'}
             /\ ripples' \ ripples = {<<clicks', elements.btn>>}
             /\ plays' \in {plays, plays + 1}
             /\ (manager # Nil /\ Len(passes[manager].audioCache) > 0) =>
                   plays' = plays + 1]_vars
    /\ [][\A r \in ripples \ ripples' : RippleTimeout(r[1])]_vars
    /\ [](slot0 = AbsentSlot =>
             /\ (initCalls > 0 /\ Attached(page, elements.counter)) =>
                   page.counterText = ToLocale(Num(clicks))
             /\ clicks = 0 => slot = AbsentSlot
             /\ clicks = 1 => slot = StoredSlot(<<"1">>))
    /\ \A e \in 1..MaxClicks :
          /\ (e \in effects) ~> (e \notin effects)
          /\ (e \in RippleIds) ~> (e \notin RippleIds)

\* fresh session, first click handled and rendered, its image and ripple in
\* the document, and no play attempt made although the current cache holds
\* an entry
C14_Witness ==
    /\ slot0 = AbsentSlot
    /\ clicks = 1
    /\ effects = {1}
    /\ RippleIds = {1}
    /\ plays = 0
    /\ manager # Nil
    /\ Len(passes[manager].audioCache) > 0
    /\ page.counterText = <<"1">>
    /\ slot = StoredSlot(<<"1">>)

\* C15: whenever the interaction handler is bound on the primary control
\* the controller holds, the loader the controller owns is ready.
C15_BoundOnlyWhenReady ==
    (Attached(page, elements.btn) /\ page.onclick) =>
        (manager # Nil /\ passes[manager].isReady)

\* C16: every write a callback or the interaction handler makes through a
\* handle (progress text, click binding, ripple) goes through the handle
\* the latest init call looked up, never through one only an earlier call
\* obtained.
C16_LatestHandlesOnly ==
    [][\A t \in touched' \ touched :
          /\ initCalls > 0
          /\ initCalls' = initCalls
          /\ t[2] # Nil
          /\ t[2] = passes[initCalls].btn
          /\ t[2] = Lookup(page).btn]_vars

\* after the second init call the first pass made a progress call and its
\* ready transition, and a click made its ripple, all through the button
\* the second call looked up
C16_Witness ==
    /\ initCalls = 2
    /\ passes[1].btn = 1
    /\ passes[2].btn = 2
    /\ <<1, 2, "progress">> \in touched
    /\ <<1, 2, "ready">> \in touched
    /\ <<2, 2, "ripple">> \in touched
    /\ \A t \in touched : t[2] = 2

\* C17: if the n-th init call found the primary control and no init call
\* follows it, then eventually its loader has resolved and run the ready
\* transition, the interaction handler is bound on the control the call
\* looked up and the loading indicator is gone from its page.
C17_LastInitReachesReady ==
    \A n \in PassIds :
        (initCalls = n /\ elements.btn # Nil)
            ~> \/ initCalls # n
               \/ /\ passes[n].promise = "resolved"
                  /\ passes[n].readyRan
                  /\ Attached(page, elements.btn)
                  /\ elements.btn = passes[n].btn
                  /\ page.onclick
                  /\ ~page.loadingIn

\* the last init call followed a navigation during the first load, the
\* first pass completed stale, and the last pass reached READY with one of
\* its fetches failed
C17_Witness ==
    /\ initCalls = MaxInits
    /\ page.kind = "game"
    /\ passes[1].live /\ passes[1].btn # passes[MaxInits].btn
    /\ <<1, passes[MaxInits].btn, "ready">> \in touched
    /\ passes[MaxInits].promise = "resolved"
    /\ passes[MaxInits].readyRan
    /\ \E i \in AudioIds : passes[MaxInits].task[i] = "failed"
    /\ page.onclick
    /\ ~page.loadingIn

====
